---- MODULE Spec2Model ----
(***************************************************************************)
(* A model of ServiceDispatcher                                            *)
(* (src/src/modules/api/loadbalancer/ServiceDispatcher.ts): the round      *)
(* robin cursor, the failover queue, the runtime status cache with its     *)
(* cooldowns, the multi key rotation and the TTL cached view of the        *)
(* enabled configurations with its invalidation listeners.                 *)
(*                                                                         *)
(* An optional value (a TypeScript `x?: T`, or `T | null`) is a sequence   *)
(* of length at most one: <<>> is undefined/null and <<v>> is v.  A string *)
(* that the code takes apart (apiKeyRaw, a key) is a sequence of one       *)
(* character strings.                                                      *)
(***************************************************************************)
EXTENDS Integers, Sequences, FiniteSets, TLC

(***************************************************************************)
(* Program constants                                                       *)
(***************************************************************************)
\* Number.MAX_SAFE_INTEGER is 2^53 - 1; the model keeps its shape, 2^3 - 1:
\* odd, and like 2^53 - 1 congruent to 1 modulo 2 and modulo 3.
MAX_SAFE_INTEGER == 7
CACHE_TTL_MS == 1000
DEFAULT_COOLDOWN_MS == 60000

(***************************************************************************)
(* Bounds of the model                                                     *)
(***************************************************************************)
\* longest candidate list handed to getNextConfig / buildFailoverQueue
MaxLen == 3

\* clock advances
MaxTicks == 2
\* configuration change notifications
MaxNotifs == 1
\* getEnabledConfigs calls suspended at once
MaxPending == 2
\* highest successCount / failureCount a report may produce
MaxCount == 1
\* the same for the runs of reports against the health registry
HealthTicks == 1
HealthNotifs == 1
HealthCount == 1
\* the same for the fair runs
LiveTicks == 1
LiveCount == 1
\* the same for the runs of one request at a time
FlowTicks == 1
FlowNotifs == 1
FlowCount == 1
\* SpecCount: clock advances, notifications and reports of each kind
CountTicks == 1
CountNotifs == 1
CountReports == 2
\* SpecParse: the longest raw key string that is enumerated
MaxRaw == 4
\* SpecDiag: clock advances and reports per endpoint or key
DiagTicks == 1
DiagCount == 1
\* SpecWipe: notifications and reports per endpoint or key
WipeNotifs == 1
WipeCount == 1
\* SpecAgree: clock advances and reports per endpoint
AgreeTicks == 2
AgreeCount == 1
\* SpecLayers: reports of each kind
LayerCount == 1
\* SpecHold: clock advances and change notifications
HoldTicks == 2
HoldNotifs == 2
\* SpecFilter: clock advances and reports per endpoint
FilterTicks == 1
FilterLen == 2
FilterCount == 1
\* SpecKeys: clock advances and reports per key
KeysTicks == 1
KeysCount == 1

\* the clock advances in steps of half a TTL, from a positive Date.now()
TickMs == CACHE_TTL_MS \div 2
StartTime == CACHE_TTL_MS

(***************************************************************************)
(* Data: ApiConfigItem                                                     *)
(***************************************************************************)
RawAB == <<"a", ",", "b">>
RawABC == <<"a", ",", "b", ",", "c">>
RawA == <<"a">>
RawNone == <<>>

Cfg(id, provider, enabled, priority, apiKey) ==
  [id |-> id, provider |-> provider, enabled |-> enabled,
   priority |-> priority, apiKey |-> apiKey]

E1 == Cfg("e1", "p1", <<>>, <<>>, RawAB)
E2 == Cfg("e2", "p1", <<TRUE>>, <<1>>, RawA)
E3 == Cfg("e3", "p2", <<TRUE>>, <<0>>, RawNone)
E2off == Cfg("e2", "p1", <<FALSE>>, <<1>>, RawA)
\* a second item carrying the id of E1 (duplicate ids are possible inputs)
E1dup == Cfg("e1", "p2", <<TRUE>>, <<2>>, RawA)

\* the items a caller may put in a candidate list
CandidatePool == {E1, E2, E3, E1dup}

RECURSIVE SeqsUpTo(_, _)
SeqsUpTo(S, n) ==
  IF n = 0 THEN {<<>>}
  ELSE LET shorter == SeqsUpTo(S, n - 1)
       IN shorter \cup {Append(s, x) : s \in {t \in shorter : Len(t) = n - 1}, x \in S}

CandidateLists == SeqsUpTo(CandidatePool, MaxLen)

IdsOf(configs) == [i \in 1..Len(configs) |-> configs[i].id]
DistinctIds(configs) ==
  \A i, j \in 1..Len(configs) : i # j => configs[i].id # configs[j].id

(***************************************************************************)
(* State                                                                   *)
(***************************************************************************)
VARIABLES
  now,                  \* Date.now()
  store,                \* StorageService: the stored settings.apiConfigs
  storeEpoch,           \* history: change notifications delivered so far
  currentIndex,         \* ServiceDispatcher.currentIndex
  runtimeStatusCache,   \* Map<configId, status>, a function on the ids it holds
  configCache,          \* ApiConfigItem[] | null
  enabledConfigsCache,  \* Map<cacheKey, ApiConfigItem[]>
  cacheTimestamp,       \* number
  cacheMeta,            \* history: where and when each cached list came from
  pending,              \* getEnabledConfigs calls suspended at the await
  lastReport,           \* history: the last report made for each endpoint and key
  ret                   \* the last operation, its arguments and what it returned

vars == <<now, store, storeEpoch, currentIndex, runtimeStatusCache, configCache,
          enabledConfigsCache, cacheTimestamp, cacheMeta, pending, lastReport, ret>>

healthVars == <<runtimeStatusCache, lastReport>>
dispatcherVars == <<currentIndex, healthVars, configCache,
                    enabledConfigsCache, cacheTimestamp, cacheMeta>>
viewVars == <<configCache, enabledConfigsCache, cacheTimestamp, cacheMeta>>
worldVars == <<now, store, storeEpoch>>

EmptyMap == [x \in {} |-> x]

(***************************************************************************)
(* Maps (a JavaScript Map is a function on the keys it holds)              *)
(***************************************************************************)
Has(m, k) == k \in DOMAIN m
Put(m, k, v) == [x \in DOMAIN m \cup {k} |-> IF x = k THEN v ELSE m[x]]
Delete(m, k) == [x \in DOMAIN m \ {k} |-> m[x]]

\* JavaScript truthiness of an optional number: undefined and 0 are falsy
Truthy(opt) == opt # <<>> /\ opt[1] # 0

(***************************************************************************)
(* HealthRegistry: runtimeStatusCache                                      *)
(***************************************************************************)
\* { successCount: 0, failureCount: 0 }
NewStatus ==
  [successCount |-> 0, failureCount |-> 0, lastUsed |-> <<>>, lastError |-> <<>>,
   cooldownUntil |-> <<>>, keyStatuses |-> <<>>, keyRotationIndex |-> <<>>]

NewKeyStatus ==
  [successCount |-> 0, failureCount |-> 0, cooldownUntil |-> <<>>, lastError |-> <<>>]

\* this.runtimeStatusCache.get(configId) || { successCount: 0, failureCount: 0 }
StatusOrNew(cache, configId) ==
  IF Has(cache, configId) THEN cache[configId] ELSE NewStatus

\* status.cooldownUntil && t < status.cooldownUntil
CoolingAt(cooldownUntil, t) == Truthy(cooldownUntil) /\ t < cooldownUntil[1]

\* mutant: the failure is counted but no cooldown is recorded
MarkConfigError_NoCooldown(cache, configId, error, cooldownDuration, t) ==
  Put(cache, configId,
      [StatusOrNew(cache, configId) EXCEPT
         !.failureCount = @ + 1,
         !.lastError = <<[code |-> error.code, message |-> error.message,
                          timestamp |-> t]>>])

MarkConfigError(cache, configId, error, cooldownDuration, t) ==
  Put(cache, configId,
      [StatusOrNew(cache, configId) EXCEPT
         !.failureCount = @ + 1,
         !.lastError = <<[code |-> error.code, message |-> error.message,
                          timestamp |-> t]>>,
         !.cooldownUntil = <<t + cooldownDuration>>])

\* mutant: a success starts the entry afresh
MarkConfigSuccess_Restart(cache, configId, t) ==
  Put(cache, configId,
      [NewStatus EXCEPT !.lastUsed = <<t>>, !.successCount = 1])

\* mutant: an endpoint success also forgets the health of the endpoint's keys
MarkConfigSuccess_ClearsKeys(cache, configId, t) ==
  Put(cache, configId,
      [StatusOrNew(cache, configId) EXCEPT
         !.lastUsed = <<t>>,
         !.successCount = @ + 1,
         !.cooldownUntil = <<>>,
         !.keyStatuses = <<>>])

MarkConfigSuccess(cache, configId, t) ==
  Put(cache, configId,
      [StatusOrNew(cache, configId) EXCEPT
         !.lastUsed = <<t>>,
         !.successCount = @ + 1,
         !.cooldownUntil = <<>>])

\* getConfigStats(configId) at time t
GetConfigStats(cache, configId, t) ==
  IF ~Has(cache, configId) THEN <<>>
  ELSE <<[successCount |-> cache[configId].successCount,
          failureCount |-> cache[configId].failureCount,
          lastUsed |-> cache[configId].lastUsed,
          isInCooldown |-> CoolingAt(cache[configId].cooldownUntil, t)]>>

\* status?.successCount || 0
CountOrZero(cache, configId, field) ==
  IF Has(cache, configId) THEN cache[configId][field] ELSE 0

\* status?.lastUsed, status?.lastError
FieldOrNone(cache, configId, field) ==
  IF Has(cache, configId) THEN cache[configId][field] ELSE <<>>

(***************************************************************************)
(* KeyRotationSelector: parseApiKeys, getNextAvailableApiKey, key reports  *)
(***************************************************************************)
IsSeparator(ch) == ch \in {",", "\n", "\r"}
IsWhitespace(ch) == ch \in {" ", "\t", "\n", "\r"}

\* apiKeyRaw.split(/[,\n\r]/): the tokens between separators, empty ones included
RECURSIVE SplitFrom(_, _, _)
SplitFrom(raw, i, token) ==
  IF i > Len(raw) THEN <<token>>
  ELSE IF IsSeparator(raw[i]) THEN <<token>> \o SplitFrom(raw, i + 1, <<>>)
  ELSE SplitFrom(raw, i + 1, Append(token, raw[i]))

\* String.prototype.trim
RECURSIVE TrimLeft(_)
TrimLeft(k) ==
  IF k # <<>> /\ IsWhitespace(k[1]) THEN TrimLeft(Tail(k)) ELSE k

RECURSIVE TrimRight(_)
TrimRight(k) ==
  IF k # <<>> /\ IsWhitespace(k[Len(k)]) THEN TrimRight(SubSeq(k, 1, Len(k) - 1)) ELSE k

\* mutant: only leading whitespace is removed
Trim_LeftOnly(k) == TrimLeft(k)

Trim(k) == TrimRight(TrimLeft(k))

ParseApiKeys(apiKeyRaw) ==
  IF apiKeyRaw = <<>> THEN <<>>
  ELSE LET tokens == SplitFrom(apiKeyRaw, 1, <<>>)
           trimmed == [i \in 1..Len(tokens) |-> Trim(tokens[i])]
       IN SelectSeq(trimmed, LAMBDA k : Len(k) > 0)

\* (status as any).keyStatuses, or the new Map the code attaches
KeyStatusesOf(status) ==
  IF status.keyStatuses = <<>> THEN EmptyMap ELSE status.keyStatuses[1]

\* (status as any).keyRotationIndex || 0
RotationIndexOf(status) ==
  IF Truthy(status.keyRotationIndex) THEN status.keyRotationIndex[1] ELSE 0

\* !keyStatus?.cooldownUntil || now >= keyStatus.cooldownUntil
KeyAvailable(keyStatuses, key, t) ==
  ~Has(keyStatuses, key) \/ ~CoolingAt(keyStatuses[key].cooldownUntil, t)

\* the offsets i of the scan loop at which the key is usable
UsableOffsets(keys, keyStatuses, startIndex, t) ==
  {i \in 0..(Len(keys) - 1) :
     KeyAvailable(keyStatuses, keys[((startIndex + i) % Len(keys)) + 1], t)}

Min(S) == CHOOSE x \in S : \A y \in S : x <= y

\* mutant: a single key is put through the cooldown scan as well
NextAvailableKey_SingleChecked(cache, configId, apiKeyRaw, t) ==
  LET keys == ParseApiKeys(apiKeyRaw)
      status == StatusOrNew(cache, configId)
      usable == UsableOffsets(keys, KeyStatusesOf(status), RotationIndexOf(status), t)
  IN IF Len(keys) = 0 THEN <<>>
     ELSE IF usable = {} THEN <<>>
     ELSE <<keys[((RotationIndexOf(status) + Min(usable)) % Len(keys)) + 1]>>

\* what getNextAvailableApiKey returns
NextAvailableKey(cache, configId, apiKeyRaw, t) ==
  LET keys == ParseApiKeys(apiKeyRaw)
      status == StatusOrNew(cache, configId)
      usable == UsableOffsets(keys, KeyStatusesOf(status), RotationIndexOf(status), t)
  IN IF Len(keys) = 0 THEN <<>>
     ELSE IF Len(keys) = 1 THEN <<keys[1]>>
     ELSE IF usable = {} THEN <<>>
     ELSE <<keys[((RotationIndexOf(status) + Min(usable)) % Len(keys)) + 1]>>

\* mutant: the stored index is the found position, not the one after it
NextAvailableKeyCache_IndexAtFound(cache, configId, apiKeyRaw, t) ==
  LET keys == ParseApiKeys(apiKeyRaw)
      status == StatusOrNew(cache, configId)
      keyStatuses == KeyStatusesOf(status)
      attached == [status EXCEPT !.keyStatuses = <<keyStatuses>>]
      usable == UsableOffsets(keys, keyStatuses, RotationIndexOf(status), t)
      idx == (RotationIndexOf(status) + Min(usable)) % Len(keys)
  IN IF Len(keys) <= 1 THEN cache
     ELSE IF usable = {} THEN cache
          ELSE Put(cache, configId, [attached EXCEPT !.keyRotationIndex = <<idx>>])

\* mutant: the stored index moves on when every key is cooling
NextAvailableKeyCache_AdvanceOnNone(cache, configId, apiKeyRaw, t) ==
  LET keys == ParseApiKeys(apiKeyRaw)
      status == StatusOrNew(cache, configId)
      keyStatuses == KeyStatusesOf(status)
      attached == [status EXCEPT !.keyStatuses = <<keyStatuses>>]
      usable == UsableOffsets(keys, keyStatuses, RotationIndexOf(status), t)
      idx == (RotationIndexOf(status) + Min(usable \cup {Len(keys)})) % Len(keys)
  IN IF Len(keys) <= 1 THEN cache
     ELSE Put(cache, configId,
              [attached EXCEPT !.keyRotationIndex = <<(idx + 1) % Len(keys)>>])

\* the runtimeStatusCache getNextAvailableApiKey leaves behind
NextAvailableKeyCache(cache, configId, apiKeyRaw, t) ==
  LET keys == ParseApiKeys(apiKeyRaw)
      status == StatusOrNew(cache, configId)
      keyStatuses == KeyStatusesOf(status)
      attached == [status EXCEPT !.keyStatuses = <<keyStatuses>>]
      usable == UsableOffsets(keys, keyStatuses, RotationIndexOf(status), t)
      idx == (RotationIndexOf(status) + Min(usable)) % Len(keys)
  IN IF Len(keys) <= 1 THEN cache
     ELSE IF usable = {}
          THEN IF status.keyStatuses = <<>> THEN Put(cache, configId, attached) ELSE cache
          ELSE Put(cache, configId,
                   [attached EXCEPT !.keyRotationIndex = <<(idx + 1) % Len(keys)>>])

\* mutant: the failure is recorded under the key in every entry that has the key
MarkApiKeyError_EveryEndpoint(cache, configId, apiKey, error, cooldownDuration, t) ==
  LET failed(status) ==
        LET keyStatuses == KeyStatusesOf(status)
            existing == IF Has(keyStatuses, apiKey) THEN keyStatuses[apiKey]
                        ELSE NewKeyStatus
            updated == [existing EXCEPT
                          !.failureCount = @ + 1,
                          !.cooldownUntil = <<t + cooldownDuration>>,
                          !.lastError = <<[code |-> error.code,
                                           message |-> error.message,
                                           timestamp |-> t]>>]
        IN [status EXCEPT !.keyStatuses = <<Put(keyStatuses, apiKey, updated)>>]
  IN [id \in DOMAIN cache \cup {configId} |->
        IF id = configId THEN failed(StatusOrNew(cache, configId))
        ELSE IF Has(KeyStatusesOf(cache[id]), apiKey) THEN failed(cache[id])
        ELSE cache[id]]

MarkApiKeyError(cache, configId, apiKey, error, cooldownDuration, t) ==
  LET status == StatusOrNew(cache, configId)
      keyStatuses == KeyStatusesOf(status)
      existing == IF Has(keyStatuses, apiKey) THEN keyStatuses[apiKey] ELSE NewKeyStatus
      updated == [existing EXCEPT
                    !.failureCount = @ + 1,
                    !.cooldownUntil = <<t + cooldownDuration>>,
                    !.lastError = <<[code |-> error.code, message |-> error.message,
                                     timestamp |-> t]>>]
  IN Put(cache, configId,
         [status EXCEPT !.keyStatuses = <<Put(keyStatuses, apiKey, updated)>>])

MarkApiKeySuccess(cache, configId, apiKey) ==
  LET status == StatusOrNew(cache, configId)
      keyStatuses == KeyStatusesOf(status)
      existing == IF Has(keyStatuses, apiKey) THEN keyStatuses[apiKey] ELSE NewKeyStatus
      updated == [existing EXCEPT !.successCount = @ + 1, !.cooldownUntil = <<>>]
  IN Put(cache, configId,
         [status EXCEPT !.keyStatuses = <<Put(keyStatuses, apiKey, updated)>>])

(***************************************************************************)
(* DiagnosticsReporter: getAllConfigsStatus                                *)
(***************************************************************************)
\* the record getAllConfigsStatus builds for one item (the item's name is
\* copied through and is not part of the modelled item)
\* mutant: the flag stays set after the deadline has passed
ConfigStatusOf_FlagPastDeadline(cache, config, t) ==
  LET cooling == Has(cache, config.id) /\ CoolingAt(cache[config.id].cooldownUntil, t)
  IN [configId |-> config.id,
      provider |-> config.provider,
      enabled |-> config.enabled # <<FALSE>>,
      successCount |-> CountOrZero(cache, config.id, "successCount"),
      failureCount |-> CountOrZero(cache, config.id, "failureCount"),
      lastUsed |-> FieldOrNone(cache, config.id, "lastUsed"),
      isInCooldown |-> Has(cache, config.id) /\ Truthy(cache[config.id].cooldownUntil),
      cooldownRemainingMs |->
        IF cooling THEN <<cache[config.id].cooldownUntil[1] - t>> ELSE <<>>,
      lastError |-> FieldOrNone(cache, config.id, "lastError"),
      keyCount |-> Len(ParseApiKeys(config.apiKey))]

ConfigStatusOf(cache, config, t) ==
  LET cooling == Has(cache, config.id) /\ CoolingAt(cache[config.id].cooldownUntil, t)
  IN [configId |-> config.id,
      provider |-> config.provider,
      enabled |-> config.enabled # <<FALSE>>,
      successCount |-> CountOrZero(cache, config.id, "successCount"),
      failureCount |-> CountOrZero(cache, config.id, "failureCount"),
      lastUsed |-> FieldOrNone(cache, config.id, "lastUsed"),
      isInCooldown |-> cooling,
      cooldownRemainingMs |->
        IF cooling THEN <<cache[config.id].cooldownUntil[1] - t>> ELSE <<>>,
      lastError |-> FieldOrNone(cache, config.id, "lastError"),
      keyCount |-> Len(ParseApiKeys(config.apiKey))]

GetAllConfigsStatus(cache, configs, t) ==
  [i \in 1..Len(configs) |-> ConfigStatusOf(cache, configs[i], t)]

(***************************************************************************)
(* ConfigView: getEnabledConfigs, filterCooldownConfigs, invalidateCache   *)
(***************************************************************************)
\* providerId || '__all__'
CacheKey(providerId) == IF providerId = <<>> THEN "__all__" ELSE providerId[1]

\* apis.filter(enabled !== false), then the provider filter when one is given
EnabledConfigs(apis, providerId) ==
  LET enabled == SelectSeq(apis, LAMBDA c : c.enabled # <<FALSE>>)
  IN IF providerId = <<>> THEN enabled
     ELSE SelectSeq(enabled, LAMBDA c : c.provider = providerId[1])

\* mutant: the filter forgets to compare the deadline with the time
NotCooling_NoExpiry(cache, configId, t) ==
  ~Has(cache, configId) \/ ~Truthy(cache[configId].cooldownUntil)

\* !status?.cooldownUntil || now >= status.cooldownUntil
NotCooling(cache, configId, t) ==
  ~Has(cache, configId) \/ ~CoolingAt(cache[configId].cooldownUntil, t)

\* mutant: the single-candidate fast path returns the candidate unchecked
FilterCooldownConfigs_SingleUnchecked(cache, configs, t) ==
  IF DOMAIN cache = {} THEN configs
  ELSE IF Len(configs) = 1 THEN configs
       ELSE SelectSeq(configs, LAMBDA c : NotCooling(cache, c.id, t))

FilterCooldownConfigs(cache, configs, t) ==
  IF DOMAIN cache = {} THEN configs
  ELSE IF Len(configs) = 1
       THEN IF NotCooling(cache, configs[1].id, t) THEN configs ELSE <<>>
       ELSE SelectSeq(configs, LAMBDA c : NotCooling(cache, c.id, t))

(***************************************************************************)
(* RotationSelector: getNextConfig, resetIndex                             *)
(***************************************************************************)
\* mutant: picks by the cursor after the increment
GetNextConfigPick_OffByOne(configs, idx) ==
  IF Len(configs) = 0 THEN <<>>
  ELSE <<configs[((idx + 1) % Len(configs)) + 1]>>

\* configs[this.currentIndex % configs.length], or null
GetNextConfigPick(configs, idx) ==
  IF Len(configs) = 0 THEN <<>>
  ELSE <<configs[(idx % Len(configs)) + 1]>>

\* mutant: the overflow guard compares with > instead of >=
GetNextConfigIndex_LateWrap(configs, idx) ==
  IF Len(configs) = 0 THEN idx
  ELSE IF idx + 1 > MAX_SAFE_INTEGER THEN 0 ELSE idx + 1

\* mutant: the cursor is advanced on an empty list too
GetNextConfigIndex_OnEmpty(configs, idx) ==
  IF idx + 1 >= MAX_SAFE_INTEGER THEN 0 ELSE idx + 1

\* mutant: the cursor is not advanced
GetNextConfigIndex_Stuck(configs, idx) == idx

\* this.currentIndex++; if (this.currentIndex >= MAX_SAFE_INTEGER) this.currentIndex = 0
GetNextConfigIndex(configs, idx) ==
  IF Len(configs) = 0 THEN idx
  ELSE IF idx + 1 >= MAX_SAFE_INTEGER THEN 0 ELSE idx + 1

\* history kept in ret: the picks of the consecutive getNextConfig calls on one list
RunOf(configs, pick) ==
  IF Len(configs) = 0 THEN [start |-> currentIndex, picks |-> <<>>]
  ELSE IF ret.op = "next" /\ ret.candidates = configs
          /\ Len(ret.run.picks) \in 1..(Len(configs) - 1)
       THEN [start |-> ret.run.start, picks |-> ret.run.picks \o pick]
       ELSE [start |-> currentIndex, picks |-> pick]

getNextConfig(configs) ==
  LET pick == GetNextConfigPick(configs, currentIndex)
  IN /\ currentIndex' = GetNextConfigIndex(configs, currentIndex)
     /\ ret' = [op |-> "next", candidates |-> configs, before |-> currentIndex,
                result |-> pick, run |-> RunOf(configs, pick)]
     /\ UNCHANGED <<worldVars, healthVars, viewVars, pending>>

\* mutant: the reset also wipes the health registry
resetIndex_ClearsHealth ==
  /\ currentIndex' = 0
  /\ runtimeStatusCache' = EmptyMap
  /\ ret' = [op |-> "reset"]
  /\ UNCHANGED <<worldVars, lastReport, viewVars, pending>>

resetIndex ==
  /\ currentIndex' = 0
  /\ ret' = [op |-> "reset"]
  /\ UNCHANGED <<worldVars, healthVars, viewVars, pending>>

(***************************************************************************)
(* FailoverQueueBuilder: buildFailoverQueue                                *)
(***************************************************************************)
\* (a.priority || 0)
PriorityOf(c) == IF c.priority = <<>> THEN 0 ELSE c.priority[1]

\* mutant: an unstable sort, x goes in front of the items equal to it
InsertByPriority_Unstable(sorted, x) ==
  LET k == Cardinality({i \in 1..Len(sorted) : PriorityOf(sorted[i]) < PriorityOf(x)})
  IN SubSeq(sorted, 1, k) \o <<x>> \o SubSeq(sorted, k + 1, Len(sorted))

\* Array.prototype.sort is stable: x, which came after everything in sorted,
\* goes behind the items that do not compare greater than it.
InsertByPriority(sorted, x) ==
  LET k == Cardinality({i \in 1..Len(sorted) : PriorityOf(sorted[i]) <= PriorityOf(x)})
  IN SubSeq(sorted, 1, k) \o <<x>> \o SubSeq(sorted, k + 1, Len(sorted))

RECURSIVE SortByPriority(_)
SortByPriority(s) ==
  IF s = <<>> THEN <<>>
  ELSE InsertByPriority(SortByPriority(SubSeq(s, 1, Len(s) - 1)), s[Len(s)])

BuildFailoverQueue(configs, idx) ==
  LET preferred == GetNextConfigPick(configs, idx)
  IN IF Len(configs) = 0 \/ preferred = <<>> THEN <<>>
     ELSE LET others == SelectSeq(configs, LAMBDA c : c.id # preferred[1].id)
          IN preferred \o SortByPriority(others)

buildFailoverQueue(configs) ==
  /\ currentIndex' = GetNextConfigIndex(configs, currentIndex)
  /\ ret' = [op |-> "build", candidates |-> configs, before |-> currentIndex,
             result |-> BuildFailoverQueue(configs, currentIndex)]
  /\ UNCHANGED <<worldVars, healthVars, viewVars, pending>>

(***************************************************************************)
(* The clock                                                               *)
(***************************************************************************)
\* the number of clock advances that lead to t
TickCount(t) ==
  ((t - StartTime) \div DEFAULT_COOLDOWN_MS)
  + (((t - StartTime) % DEFAULT_COOLDOWN_MS) \div TickMs)

\* time passes
Tick(step) ==
  /\ now' = now + step
  /\ ret' = [op |-> "tick"]
  /\ UNCHANGED <<store, storeEpoch, dispatcherVars, pending>>

(***************************************************************************)
(* History of the reports (read by the claims only)                        *)
(***************************************************************************)
AllConfigIds == {"e1", "e2", "e3"}
AllKeys == {<<"a">>, <<"b">>, <<"c">>}

NoReport == [kind |-> "none", at |-> 0, cooldownDuration |-> 0, wiped |-> FALSE]
FailureReport(t, d) ==
  [kind |-> "failure", at |-> t, cooldownDuration |-> d, wiped |-> FALSE]
SuccessReport(t) ==
  [kind |-> "success", at |-> t, cooldownDuration |-> 0, wiped |-> FALSE]

NoReports ==
  [config |-> [id \in AllConfigIds |-> NoReport],
   key |-> [ik \in AllConfigIds \X AllKeys |-> NoReport]]

ConfigReported(configId, r) == [lastReport EXCEPT !.config[configId] = r]
KeyReported(configId, apiKey, r) ==
  [lastReport EXCEPT !.key[<<configId, apiKey>>] = r]

\* the entries of these ids were deleted after their last report
Wiped(ids) ==
  [config |-> [id \in AllConfigIds |->
                 IF id \in ids THEN [lastReport.config[id] EXCEPT !.wiped = TRUE]
                 ELSE lastReport.config[id]],
   key |-> [ik \in AllConfigIds \X AllKeys |->
              IF ik[1] \in ids THEN [lastReport.key[ik] EXCEPT !.wiped = TRUE]
              ELSE lastReport.key[ik]]]

(***************************************************************************)
(* Health reports and reads                                                *)
(***************************************************************************)
markConfigError(configId, error, cooldownDuration) ==
  /\ runtimeStatusCache' =
       MarkConfigError(runtimeStatusCache, configId, error, cooldownDuration, now)
  /\ lastReport' = ConfigReported(configId, FailureReport(now, cooldownDuration))
  /\ ret' = [op |-> "markConfigError", configId |-> configId, at |-> now,
             cooldownDuration |-> cooldownDuration]
  /\ UNCHANGED <<worldVars, currentIndex, viewVars, pending>>

markConfigSuccess(configId) ==
  /\ runtimeStatusCache' = MarkConfigSuccess(runtimeStatusCache, configId, now)
  /\ lastReport' = ConfigReported(configId, SuccessReport(now))
  /\ ret' = [op |-> "markConfigSuccess", configId |-> configId, at |-> now]
  /\ UNCHANGED <<worldVars, currentIndex, viewVars, pending>>

clearRuntimeStatusCache ==
  /\ runtimeStatusCache' = EmptyMap
  /\ lastReport' = Wiped(AllConfigIds)
  /\ ret' = [op |-> "clearAll"]
  /\ UNCHANGED <<worldVars, currentIndex, viewVars, pending>>

getConfigStats(configId) ==
  /\ ret' = [op |-> "stats", configId |-> configId, at |-> now,
             result |-> GetConfigStats(runtimeStatusCache, configId, now)]
  /\ UNCHANGED <<worldVars, dispatcherVars, pending>>

\* the private filter applied to a candidate list at the current time
filterCooldownConfigs(configs) ==
  /\ ret' = [op |-> "filter", configs |-> configs, at |-> now,
             result |-> FilterCooldownConfigs(runtimeStatusCache, configs, now)]
  /\ UNCHANGED <<worldVars, dispatcherVars, pending>>

parseApiKeys(apiKeyRaw) ==
  /\ ret' = [op |-> "parse", apiKeyRaw |-> apiKeyRaw, result |-> ParseApiKeys(apiKeyRaw)]
  /\ UNCHANGED <<worldVars, dispatcherVars, pending>>

getAllConfigsStatus(configs) ==
  /\ ret' = [op |-> "summarize", configs |-> configs, at |-> now,
             result |-> GetAllConfigsStatus(runtimeStatusCache, configs, now)]
  /\ UNCHANGED <<worldVars, dispatcherVars, pending>>

\* mutant: reading the cursor moves it
getCurrentIndex_Advancing ==
  /\ currentIndex' = (currentIndex + 1) % MAX_SAFE_INTEGER
  /\ ret' = [op |-> "peek", result |-> currentIndex]
  /\ UNCHANGED <<worldVars, healthVars, viewVars, pending>>

getCurrentIndex ==
  /\ ret' = [op |-> "peek", result |-> currentIndex]
  /\ UNCHANGED <<worldVars, dispatcherVars, pending>>

\* TranslationSettings.vue showConfigStatus over the configuration it holds
showConfigStatus(apiConfigs) ==
  /\ ret' = IF Len(apiConfigs) = 0
            THEN [op |-> "showConfigStatus", statusList |-> <<>>, index |-> <<>>]
            ELSE [op |-> "showConfigStatus",
                  statusList |-> GetAllConfigsStatus(runtimeStatusCache, apiConfigs, now),
                  index |-> <<currentIndex>>]
  /\ UNCHANGED <<worldVars, dispatcherVars, pending>>

KeyCount(configId, apiKey, field) ==
  LET keyStatuses == KeyStatusesOf(StatusOrNew(runtimeStatusCache, configId))
  IN IF Has(keyStatuses, apiKey) THEN keyStatuses[apiKey][field] ELSE 0

markApiKeyError(configId, apiKey, error, cooldownDuration) ==
  /\ runtimeStatusCache' =
       MarkApiKeyError(runtimeStatusCache, configId, apiKey, error, cooldownDuration, now)
  /\ lastReport' = KeyReported(configId, apiKey, FailureReport(now, cooldownDuration))
  /\ ret' = [op |-> "markApiKeyError", configId |-> configId, apiKey |-> apiKey,
             at |-> now, cooldownDuration |-> cooldownDuration]
  /\ UNCHANGED <<worldVars, currentIndex, viewVars, pending>>

markApiKeySuccess(configId, apiKey) ==
  /\ runtimeStatusCache' = MarkApiKeySuccess(runtimeStatusCache, configId, apiKey)
  /\ lastReport' = KeyReported(configId, apiKey, SuccessReport(now))
  /\ ret' = [op |-> "markApiKeySuccess", configId |-> configId, apiKey |-> apiKey,
             at |-> now]
  /\ UNCHANGED <<worldVars, currentIndex, viewVars, pending>>

getNextAvailableApiKey(configId, apiKeyRaw) ==
  /\ runtimeStatusCache' =
       NextAvailableKeyCache(runtimeStatusCache, configId, apiKeyRaw, now)
  /\ UNCHANGED lastReport
  /\ ret' = [op |-> "nextKey", configId |-> configId, apiKeyRaw |-> apiKeyRaw,
             at |-> now,
             result |-> NextAvailableKey(runtimeStatusCache, configId, apiKeyRaw, now)]
  /\ UNCHANGED <<worldVars, currentIndex, viewVars, pending>>

(***************************************************************************)
(* getEnabledConfigs                                                       *)
(***************************************************************************)
NoMeta == [config |-> <<>>, lists |-> EmptyMap]

\* the cache check of lines 108-112
CacheHit(providerId, t) ==
  /\ cacheTimestamp > 0
  /\ t - cacheTimestamp < CACHE_TTL_MS
  /\ Has(enabledConfigsCache, CacheKey(providerId))

LastWasCall == ret.op = "enabledEndpoints"

CallResult(providerId, t, startEpoch, hit, listAt, dataEpoch, result) ==
  [op |-> "enabledEndpoints", providerId |-> providerId, now |-> t,
   startEpoch |-> startEpoch, hit |-> hit, listAt |-> listAt,
   dataEpoch |-> dataEpoch, result |-> result]

\* lines 104-116: the call is served from the cached list
getEnabledConfigsHit(providerId) ==
  LET key == CacheKey(providerId)
  IN /\ CacheHit(providerId, now)
     /\ ret' = CallResult(providerId, now, storeEpoch, TRUE,
                          cacheMeta.lists[key].at, cacheMeta.lists[key].epoch,
                          FilterCooldownConfigs(runtimeStatusCache,
                                                enabledConfigsCache[key], now))
     /\ UNCHANGED <<worldVars, dispatcherVars, pending>>

\* lines 128-141, for the call that took `now` as t and holds apis
DeriveAndReturn(providerId, t, startEpoch, apis, dataEpoch) ==
  LET key == CacheKey(providerId)
      configs == EnabledConfigs(apis, providerId)
  IN /\ enabledConfigsCache' = Put(enabledConfigsCache, key, configs)
     /\ cacheTimestamp' = t
     /\ cacheMeta' = [config |-> <<dataEpoch>>,
                      lists |-> Put(cacheMeta.lists, key,
                                    [at |-> now, epoch |-> dataEpoch])]
     /\ ret' = CallResult(providerId, t, startEpoch, FALSE, now, dataEpoch,
                          FilterCooldownConfigs(runtimeStatusCache, configs, t))

\* lines 104-141 with this.configCache set: no await, the call runs to its end
getEnabledConfigsHeld(providerId) ==
  /\ ~CacheHit(providerId, now)
  /\ configCache # <<>>
  /\ DeriveAndReturn(providerId, now, storeEpoch, configCache[1], cacheMeta.config[1])
  /\ UNCHANGED <<worldVars, currentIndex, healthVars, configCache, pending>>

\* mutant: every cache miss goes to the store, also while a snapshot is held
getEnabledConfigsAwait_OnEveryMiss(providerId) ==
  /\ ~CacheHit(providerId, now)
  /\ pending' = Append(pending, [providerId |-> providerId, now |-> now,
                                 startEpoch |-> storeEpoch, settings |-> <<>>])
  /\ ret' = [op |-> "await", providerId |-> providerId]
  /\ UNCHANGED <<worldVars, dispatcherVars>>

\* lines 104-123 with this.configCache null: the call suspends at the await
getEnabledConfigsAwait(providerId) ==
  /\ ~CacheHit(providerId, now)
  /\ configCache = <<>>
  /\ pending' = Append(pending, [providerId |-> providerId, now |-> now,
                                 startEpoch |-> storeEpoch, settings |-> <<>>])
  /\ ret' = [op |-> "await", providerId |-> providerId]
  /\ UNCHANGED <<worldVars, dispatcherVars>>

\* StorageService.getUserSettings reads the stored settings for a suspended call
getUserSettings(i) ==
  /\ i \in 1..Len(pending)
  /\ pending[i].settings = <<>>
  /\ pending' = [pending EXCEPT ![i].settings =
                   <<[apiConfigs |-> store, epoch |-> storeEpoch]>>]
  /\ ret' = [op |-> "getUserSettings"]
  /\ UNCHANGED <<worldVars, dispatcherVars>>

RemoveAt(q, i) == SubSeq(q, 1, i - 1) \o SubSeq(q, i + 1, Len(q))

\* lines 124-141: the suspended call resumes with the settings it was given
getEnabledConfigsResume(i) ==
  /\ i \in 1..Len(pending)
  /\ pending[i].settings # <<>>
  /\ configCache' = <<pending[i].settings[1].apiConfigs>>
  /\ DeriveAndReturn(pending[i].providerId, pending[i].now, pending[i].startEpoch,
                     pending[i].settings[1].apiConfigs, pending[i].settings[1].epoch)
  /\ pending' = RemoveAt(pending, i)
  /\ UNCHANGED <<worldVars, currentIndex, healthVars>>

(***************************************************************************)
(* Storage events                                                          *)
(***************************************************************************)
\* const invalidateCache = () => { ... }
InvalidateCache ==
  /\ configCache' = <<>>
  /\ enabledConfigsCache' = EmptyMap
  /\ cacheTimestamp' = 0
  /\ cacheMeta' = NoMeta

\* SETTINGS_SAVED, API_CONFIG_ADDED, API_CONFIG_UPDATED, DATA_CLEARED, SETTINGS_LOADED
ConfigChanged(apiConfigs) ==
  /\ store' = apiConfigs
  /\ storeEpoch' = storeEpoch + 1
  /\ InvalidateCache
  /\ ret' = [op |-> "notify", removed |-> <<>>]
  /\ UNCHANGED <<now, currentIndex, healthVars, pending>>

\* mutant: the removal listener only invalidates the caches
ConfigRemoved_KeepsEntry(configId) ==
  /\ store' = SelectSeq(store, LAMBDA c : c.id # configId)
  /\ storeEpoch' = storeEpoch + 1
  /\ InvalidateCache
  /\ UNCHANGED <<runtimeStatusCache, lastReport>>
  /\ ret' = [op |-> "notify", removed |-> <<configId>>]
  /\ UNCHANGED <<now, currentIndex, pending>>

\* API_CONFIG_REMOVED carrying event.data.configId
ConfigRemoved(configId) ==
  /\ store' = SelectSeq(store, LAMBDA c : c.id # configId)
  /\ storeEpoch' = storeEpoch + 1
  /\ InvalidateCache
  /\ runtimeStatusCache' =
       IF Has(runtimeStatusCache, configId) THEN Delete(runtimeStatusCache, configId)
       ELSE runtimeStatusCache
  /\ lastReport' = Wiped({configId})
  /\ ret' = [op |-> "notify", removed |-> <<configId>>]
  /\ UNCHANGED <<now, currentIndex, pending>>

(***************************************************************************)
(* Initial state: a freshly constructed dispatcher                         *)
(***************************************************************************)
Init ==
  /\ now = StartTime
  /\ store = <<E1, E2, E3>>
  /\ storeEpoch = 0
  /\ currentIndex = 0
  /\ runtimeStatusCache = EmptyMap
  /\ configCache = <<>>
  /\ enabledConfigsCache = EmptyMap
  /\ cacheTimestamp = 0
  /\ cacheMeta = NoMeta
  /\ pending = <<>>
  /\ lastReport = NoReports
  /\ ret = [op |-> "init"]

(***************************************************************************)
(* SpecRot: the rotation cursor and the failover queue on their own        *)
(***************************************************************************)
NextRot ==
  \/ \E configs \in CandidateLists : getNextConfig(configs)
  \/ \E configs \in CandidateLists : buildFailoverQueue(configs)
  \/ resetIndex

SpecRot == Init /\ [][NextRot]_vars

(***************************************************************************)
(* Claims about the rotation cursor and the failover queue                 *)
(***************************************************************************)
\* the item at 0-based position k of the rotation over configs
AtRotation(configs, k) == configs[(k % Len(configs)) + 1]

LastWasNext == ret.op = "next"
LastWasBuild == ret.op = "build"

\* the run recorded in ret is in list order from its starting cursor
RunInListOrder ==
  \A i \in 1..Len(ret.run.picks) :
    ret.run.picks[i] = AtRotation(ret.candidates, ret.run.start + i - 1)

\* C6 as stated: for every non-empty list of length n and every reachable cursor
\* value c, n consecutive getNextConfig calls on that list return the candidates
\* in list order starting at position c mod n and wrapping around, each once.
C6_RunVisitsEachOnce_AnyCursor ==
  (LastWasNext /\ Len(ret.candidates) > 0) => RunInListOrder

\* C6 amended: the same, for every cursor value c with c + n <= MAX_SAFE_INTEGER,
\* that is when the cursor does not wrap to 0 in the middle of the run.
C6_RunVisitsEachOnce_NoWrap ==
  (/\ LastWasNext
   /\ Len(ret.candidates) > 0
   /\ ret.run.start + Len(ret.run.picks) <= MAX_SAFE_INTEGER)
  => /\ RunInListOrder
     /\ Len(ret.run.picks) = Len(ret.candidates) =>
          \A p \in 1..Len(ret.candidates) :
            Cardinality({i \in 1..Len(ret.run.picks) :
                           (ret.run.start + i - 1) % Len(ret.candidates) = p - 1}) = 1

\* a full run over three candidates that started in the middle of the list
C6_Witness ==
  /\ LastWasNext
  /\ Len(ret.candidates) = 3
  /\ DistinctIds(ret.candidates)
  /\ Len(ret.run.picks) = 3
  /\ ret.run.start % 3 = 2
  /\ ret.run.start + 3 <= MAX_SAFE_INTEGER

\* C7 as stated: getNextConfig on an empty list returns null and leaves the cursor
\* alone; on a non-empty list it returns candidates[cursor mod n] for the cursor
\* before the call and advances the cursor by exactly one.
C7_NextAdvancesByExactlyOne ==
  LastWasNext =>
    IF Len(ret.candidates) = 0
    THEN ret.result = <<>> /\ currentIndex = ret.before
    ELSE /\ ret.result = <<AtRotation(ret.candidates, ret.before)>>
         /\ currentIndex = ret.before + 1

\* C7 amended: as stated, except that the call made at cursor MAX_SAFE_INTEGER - 1
\* sets the cursor to 0 instead of advancing it.
C7_NextAdvancesOrWraps ==
  LastWasNext =>
    IF Len(ret.candidates) = 0
    THEN ret.result = <<>> /\ currentIndex = ret.before
    ELSE /\ ret.result = <<AtRotation(ret.candidates, ret.before)>>
         /\ currentIndex = IF ret.before = MAX_SAFE_INTEGER - 1 THEN 0
                           ELSE ret.before + 1

\* the call at the last cursor value before the threshold, on a two item list
C7_Witness ==
  /\ LastWasNext
  /\ Len(ret.candidates) = 2
  /\ ret.before = MAX_SAFE_INTEGER - 1
  /\ currentIndex = 0

CursorStep ==
  /\ currentIndex' # currentIndex =>
       \/ /\ ret'.op \in {"next", "build"}
          /\ Len(ret'.candidates) > 0
          /\ currentIndex + 1 < MAX_SAFE_INTEGER
          /\ currentIndex' = currentIndex + 1
       \/ /\ ret'.op \in {"next", "build"}
          /\ Len(ret'.candidates) > 0
          /\ currentIndex + 1 >= MAX_SAFE_INTEGER
          /\ currentIndex' = 0
       \/ /\ ret'.op = "reset"
          /\ currentIndex' = 0
  /\ (ret'.op \in {"next", "build"} /\ ret' # ret /\ Len(ret'.candidates) > 0
      /\ currentIndex + 1 >= MAX_SAFE_INTEGER) => currentIndex' = 0

\* C8: the cursor is always an integer in 0 .. MAX_SAFE_INTEGER - 1; the increment
\* that would reach the threshold sets it to 0; and it changes only by +1 in a
\* non-empty getNextConfig / buildFailoverQueue, by that wrap, or by resetIndex.
C8_CursorNeverOverflows ==
  /\ [](currentIndex \in 0..(MAX_SAFE_INTEGER - 1))
  /\ [][CursorStep]_vars

\* a failover queue built at the last cursor value wrapped the cursor
C8_Witness ==
  /\ LastWasBuild
  /\ Len(ret.candidates) > 0
  /\ ret.before = MAX_SAFE_INTEGER - 1
  /\ currentIndex = 0

PositionIn(configs, c) == CHOOSE i \in 1..Len(configs) : configs[i] = c

\* C9: buildFailoverQueue of an empty list is empty; of a non-empty list with
\* pairwise distinct ids it is a permutation of the input, the rotation pick
\* first, the others ascending by (priority || 0), equal priorities in input order.
C9_BuildIsPickThenStableSort ==
  LastWasBuild =>
    /\ Len(ret.candidates) = 0 => ret.result = <<>>
    /\ (Len(ret.candidates) > 0 /\ DistinctIds(ret.candidates)) =>
         LET q == ret.result
             n == Len(ret.candidates)
         IN /\ Len(q) = n
            /\ {q[i] : i \in 1..n} = {ret.candidates[i] : i \in 1..n}
            /\ q[1] = AtRotation(ret.candidates, ret.before)
            /\ \A i, j \in 2..n :
                 i < j =>
                   \/ PriorityOf(q[i]) < PriorityOf(q[j])
                   \/ /\ PriorityOf(q[i]) = PriorityOf(q[j])
                      /\ PositionIn(ret.candidates, q[i]) < PositionIn(ret.candidates, q[j])

\* a queue whose tail holds two items of equal priority, one with none set,
\* behind a pick that was not the head of the input
C9_Witness ==
  /\ LastWasBuild
  /\ ret.candidates = <<E1, E2, E3>>
  /\ ret.before % 3 = 1
  /\ ret.result = <<E2, E1, E3>>

(***************************************************************************)
(* Inputs of the callers, and the guards that keep the runs bounded        *)
(***************************************************************************)
Errors == {[code |-> 429, message |-> "rate limited"]}
Keys == {<<"a">>, <<"b">>}
RawKeyStrings == {RawNone, RawA, RawAB}
StoreVersions == {<<E1, E2, E3>>, <<E1, E2off, E3>>}

ClockBelow(maxTicks) == TickCount(now) < maxTicks
FailuresBelow(configId, maxCount) ==
  StatusOrNew(runtimeStatusCache, configId).failureCount < maxCount
SuccessesBelow(configId, maxCount) ==
  StatusOrNew(runtimeStatusCache, configId).successCount < maxCount
KeyFailuresBelow(configId, apiKey, maxCount) ==
  KeyCount(configId, apiKey, "failureCount") < maxCount
KeySuccessesBelow(configId, apiKey, maxCount) ==
  KeyCount(configId, apiKey, "successCount") < maxCount

(***************************************************************************)
(* SpecView: the cached view under overlapping calls and storage events    *)
(***************************************************************************)
NextView ==
  \/ ClockBelow(MaxTicks) /\ Tick(TickMs)
  \/ \E apiConfigs \in StoreVersions :
       storeEpoch < MaxNotifs /\ ConfigChanged(apiConfigs)
  \/ storeEpoch < MaxNotifs /\ ConfigRemoved("e1")
  \/ \E providerId \in {<<>>, <<"p1">>} : getEnabledConfigsHit(providerId)
  \/ \E providerId \in {<<>>, <<"p1">>} : getEnabledConfigsHeld(providerId)
  \/ \E providerId \in {<<>>, <<"p1">>} :
       Len(pending) < MaxPending /\ getEnabledConfigsAwait(providerId)
  \/ \E i \in 1..MaxPending : getUserSettings(i)
  \/ \E i \in 1..MaxPending : getEnabledConfigsResume(i)
  \/ \E error \in Errors :
       FailuresBelow("e1", MaxCount) /\ markConfigError("e1", error, TickMs)
  \/ SuccessesBelow("e1", MaxCount) /\ markConfigSuccess("e1")
  \/ clearRuntimeStatusCache

SpecView == Init /\ [][NextView]_vars

(***************************************************************************)
(* SpecHealth: reports, removals and reads of the health registry          *)
(***************************************************************************)
HealthIds == {"e1"}
HealthCooldowns == {TickMs, DEFAULT_COOLDOWN_MS}

NextHealth ==
  \/ ClockBelow(HealthTicks) /\ Tick(TickMs)
  \/ ClockBelow(HealthTicks) /\ Tick(DEFAULT_COOLDOWN_MS)
  \/ \E configId \in HealthIds, error \in Errors, d \in HealthCooldowns :
       FailuresBelow(configId, HealthCount) /\ markConfigError(configId, error, d)
  \/ \E configId \in HealthIds :
       SuccessesBelow(configId, HealthCount) /\ markConfigSuccess(configId)
  \/ \E configId \in HealthIds, error \in Errors :
       /\ KeyFailuresBelow(configId, <<"a">>, HealthCount)
       /\ markApiKeyError(configId, <<"a">>, error, TickMs)
  \/ \E configId \in HealthIds :
       /\ KeySuccessesBelow(configId, <<"a">>, HealthCount)
       /\ markApiKeySuccess(configId, <<"a">>)
  \/ \E configId \in HealthIds : getNextAvailableApiKey(configId, RawAB)
  \/ clearRuntimeStatusCache
  \/ \E configId \in HealthIds : storeEpoch < HealthNotifs /\ ConfigRemoved(configId)

SpecHealth == Init /\ [][NextHealth]_vars

(***************************************************************************)
(* Claims about cooldowns                                                  *)
(***************************************************************************)
\* what the cooldown filter and the key scan read at the current time
EndpointOnCooldown(configId) == ~NotCooling(runtimeStatusCache, configId, now)
KeyOnCooldown(configId, apiKey) ==
  ~KeyAvailable(KeyStatusesOf(StatusOrNew(runtimeStatusCache, configId)), apiKey, now)

\* a failure at t with duration d cools exactly while now < t + d
FailureCools(r, cooling) ==
  r.kind = "failure" => (cooling <=> now < r.at + r.cooldownDuration)
SuccessReadmits(r, cooling) == r.kind = "success" => ~cooling

\* C4 as stated: while the last report for an endpoint (or key) is a failure made
\* at t with duration d, it is on cooldown at every time in [t, t + d) and not
\* from t + d on; while the last report is a success it is not on cooldown.
C4_CooldownWindow_AnyIntervening ==
  /\ \A id \in AllConfigIds :
       /\ FailureCools(lastReport.config[id], EndpointOnCooldown(id))
       /\ SuccessReadmits(lastReport.config[id], EndpointOnCooldown(id))
  /\ \A ik \in AllConfigIds \X AllKeys :
       /\ FailureCools(lastReport.key[ik], KeyOnCooldown(ik[1], ik[2]))
       /\ SuccessReadmits(lastReport.key[ik], KeyOnCooldown(ik[1], ik[2]))

\* C4 amended: the same, provided that neither another report for it nor a
\* removal notification for the endpoint nor clearAll came after the failure.
C4_CooldownWindow_UnlessWiped ==
  /\ \A id \in AllConfigIds :
       /\ ~lastReport.config[id].wiped =>
            FailureCools(lastReport.config[id], EndpointOnCooldown(id))
       /\ SuccessReadmits(lastReport.config[id], EndpointOnCooldown(id))
  /\ \A ik \in AllConfigIds \X AllKeys :
       /\ ~lastReport.key[ik].wiped =>
            FailureCools(lastReport.key[ik], KeyOnCooldown(ik[1], ik[2]))
       /\ SuccessReadmits(lastReport.key[ik], KeyOnCooldown(ik[1], ik[2]))

\* a failure reported with the default duration has expired, while a key of the
\* same endpoint that failed later is still cooling
C4_Witness ==
  /\ lastReport.config["e1"].kind = "failure"
  /\ ~lastReport.config["e1"].wiped
  /\ lastReport.config["e1"].cooldownDuration = DEFAULT_COOLDOWN_MS
  /\ now >= lastReport.config["e1"].at + DEFAULT_COOLDOWN_MS
  /\ ~EndpointOnCooldown("e1")
  /\ lastReport.key[<<"e1", <<"a">>>>].kind = "failure"
  /\ ~lastReport.key[<<"e1", <<"a">>>>].wiped
  /\ KeyOnCooldown("e1", <<"a">>)

(***************************************************************************)
(* SpecLive: fair runs over a fixed configuration.  The clock keeps        *)
(* advancing up to the horizon, the caller keeps asking for the enabled    *)
(* configurations and for the next key, the storage answers and suspended  *)
(* calls resume.  Reports are free to come or not; a failure is reported   *)
(* only when its cooldown ends within the horizon.                         *)
(***************************************************************************)
Horizon == StartTime + LiveTicks * CACHE_TTL_MS

LiveTick == now < Horizon /\ Tick(CACHE_TTL_MS)
LiveCall ==
  \/ getEnabledConfigsHit(<<>>)
  \/ getEnabledConfigsHeld(<<>>)
  \/ pending = <<>> /\ getEnabledConfigsAwait(<<>>)
LiveNextKey == getNextAvailableApiKey("e1", RawAB)

NextLive ==
  \/ LiveTick
  \/ LiveCall
  \/ getUserSettings(1)
  \/ getEnabledConfigsResume(1)
  \/ LiveNextKey
  \/ \E error \in Errors :
       /\ FailuresBelow("e1", LiveCount)
       /\ now + TickMs <= Horizon
       /\ markConfigError("e1", error, TickMs)
  \/ \E error \in Errors :
       /\ KeyFailuresBelow("e1", <<"a">>, LiveCount)
       /\ now + TickMs <= Horizon
       /\ markApiKeyError("e1", <<"a">>, error, TickMs)

SpecLive ==
  /\ Init
  /\ [][NextLive]_vars
  /\ WF_vars(LiveTick)
  /\ WF_vars(LiveCall)
  /\ WF_vars(getUserSettings(1))
  /\ WF_vars(getEnabledConfigsResume(1))
  /\ WF_vars(LiveNextKey)

\* the last operation was a getEnabledConfigs call that returned this endpoint
Included(configId) ==
  LastWasCall /\ \E i \in 1..Len(ret.result) : ret.result[i].id = configId
\* the last operation was a getNextAvailableApiKey call that returned this key
Returned(configId, apiKey) ==
  ret.op = "nextKey" /\ ret.configId = configId /\ ret.result = <<apiKey>>

EnabledIds == {store[i].id : i \in {j \in 1..Len(store) : store[j].enabled # <<FALSE>>}}

\* C5: an enabled endpoint on cooldown is eventually returned again by
\* getEnabledConfigs, and a key on cooldown of a multi key endpoint is eventually
\* returned again by getNextAvailableApiKey, once failures stop and time passes.
C5_NoPermanentExclusion ==
  /\ ("e1" \in EnabledIds /\ EndpointOnCooldown("e1")) ~> Included("e1")
  /\ KeyOnCooldown("e1", <<"a">>) ~> Returned("e1", <<"a">>)

\* the endpoint is returned again after its cooldown ran out, with no success
\* report in between, while one of its keys has also failed
C5_Witness ==
  /\ Included("e1")
  /\ lastReport.config["e1"].kind = "failure"
  /\ ret.now >= lastReport.config["e1"].at + lastReport.config["e1"].cooldownDuration
  /\ lastReport.key[<<"e1", <<"a">>>>].kind = "failure"

(***************************************************************************)
(* Spec: one request at a time, from the view to the queue to the reports  *)
(***************************************************************************)
FlowLists == {<<>>, <<E1, E2>>}

Next ==
  \/ ClockBelow(FlowTicks) /\ Tick(TickMs)
  \/ \E apiConfigs \in StoreVersions :
       storeEpoch < FlowNotifs /\ ConfigChanged(apiConfigs)
  \/ storeEpoch < FlowNotifs /\ ConfigRemoved("e1")
  \/ getEnabledConfigsHit(<<>>)
  \/ \E providerId \in {<<>>, <<"p1">>} : getEnabledConfigsHeld(providerId)
  \/ pending = <<>> /\ getEnabledConfigsAwait(<<>>)
  \/ getUserSettings(1)
  \/ getEnabledConfigsResume(1)
  \/ \E error \in Errors :
       FailuresBelow("e1", FlowCount) /\ markConfigError("e1", error, TickMs)
  \/ clearRuntimeStatusCache
  \/ \E configs \in FlowLists : getNextConfig(configs)
  \/ \E configs \in FlowLists : buildFailoverQueue(configs)
  \/ resetIndex

Spec == Init /\ [][Next]_vars

(***************************************************************************)
(* Claims about the cached view                                            *)
(***************************************************************************)
\* C1: every completed getEnabledConfigs call, cached or recomputed, returns
\* exactly the items of the held configuration snapshot that are enabled, match
\* the provider filter when one is given and are not on cooldown at the call's
\* now, in configuration order.
C1_CallReturnsHeldEnabledNotCooling ==
  LastWasCall =>
    /\ configCache # <<>>
    /\ ret.result =
         SelectSeq(EnabledConfigs(configCache[1], ret.providerId),
                   LAMBDA c : NotCooling(runtimeStatusCache, c.id, ret.now))

\* C2: right after a change notification the raw and the derived caches are
\* empty, and every call is computed from a snapshot that was read from the
\* store after the last notification that preceded the call's start.
C2_NoCallUsesSnapshotFromBeforeNotification ==
  /\ ret.op = "notify" => (configCache = <<>> /\ DOMAIN enabledConfigsCache = {})
  /\ LastWasCall => ret.dataEpoch >= ret.startEpoch

\* C3: a call served from the cache never returns a list that was computed
\* CACHE_TTL_MS or more before the call.
C3_CachedListYoungerThanTtl ==
  (LastWasCall /\ ret.hit) => ret.now - ret.listAt < CACHE_TTL_MS

(***************************************************************************)
(* Claims about the effect of a build on the rest of the dispatcher        *)
(***************************************************************************)
\* C10: a buildFailoverQueue call on a non-empty list advances the cursor by one
\* rotation step (plus one, back to 0 at the wrap), a call on an empty list
\* leaves the cursor alone, and no call changes a health entry, the held
\* snapshot, a derived list or the cache timestamp.
C10_BuildTakesOneStepAndNothingElse ==
  [][ret'.op = "build" =>
       /\ Len(ret'.candidates) > 0 =>
            currentIndex' = (currentIndex + 1) % MAX_SAFE_INTEGER
       /\ Len(ret'.candidates) = 0 => currentIndex' = currentIndex
       /\ UNCHANGED <<runtimeStatusCache, configCache, enabledConfigsCache,
                      cacheTimestamp>>]_vars

\* a build at the wrap, with a health entry, a held snapshot and a derived list
C10_Witness ==
  /\ ret.op = "build"
  /\ Len(ret.candidates) > 0
  /\ ret.before = MAX_SAFE_INTEGER - 1
  /\ currentIndex = 0
  /\ Has(runtimeStatusCache, "e1")
  /\ configCache # <<>>
  /\ DOMAIN enabledConfigsCache # {}

(***************************************************************************)
(* SpecKeys: key requests and key reports for two endpoints                *)
(***************************************************************************)
KeyRaws == {RawNone, RawA, RawAB, RawABC}

\* e1 is asked for keys of every raw string and gets reports for its keys a and
\* b, e2 lists the same two key strings and gets reports for one of them
NextKeys ==
  \/ ClockBelow(KeysTicks) /\ Tick(TickMs)
  \/ \E apiKeyRaw \in KeyRaws : getNextAvailableApiKey("e1", apiKeyRaw)
  \/ getNextAvailableApiKey("e2", RawAB)
  \/ \E apiKey \in Keys, error \in Errors :
       /\ KeyFailuresBelow("e1", apiKey, KeysCount)
       /\ markApiKeyError("e1", apiKey, error, TickMs)
  \/ KeySuccessesBelow("e1", <<"a">>, KeysCount) /\ markApiKeySuccess("e1", <<"a">>)

SpecKeys == Init /\ [][NextKeys]_vars

(***************************************************************************)
(* Claims about the key rotation                                           *)
(***************************************************************************)
LastWasNextKey == ret.op = "nextKey"

\* the key rotation index the endpoint's entry stores, 0 when it stores none
StoredKeyIndex(configId) ==
  IF Has(runtimeStatusCache, configId)
       /\ runtimeStatusCache[configId].keyRotationIndex # <<>>
  THEN runtimeStatusCache[configId].keyRotationIndex[1]
  ELSE 0

\* the key health entries of the endpoint, none when it has no entry
KeyEntries(configId) ==
  IF Has(runtimeStatusCache, configId)
       /\ runtimeStatusCache[configId].keyStatuses # <<>>
  THEN runtimeStatusCache[configId].keyStatuses[1]
  ELSE EmptyMap

\* the key has an entry with a deadline that lies after the current time
KeyCooling(configId, apiKey) ==
  /\ Has(KeyEntries(configId), apiKey)
  /\ KeyEntries(configId)[apiKey].cooldownUntil # <<>>
  /\ now < KeyEntries(configId)[apiKey].cooldownUntil[1]

\* C11: a getNextAvailableApiKey call for two or more parsed keys, one of them
\* not cooling, returns the first key in rotation order from the stored index
\* (0 when none is stored) that is not cooling, and stores found position + 1
\* modulo the number of keys.
C11_ScanReturnsFirstUsableFromStoredIndex ==
  [][ret'.op = "nextKey" =>
       LET keys == ParseApiKeys(ret'.apiKeyRaw)
           n == Len(keys)
           id == ret'.configId
           start == StoredKeyIndex(id)
           at(i) == ((start + i) % n) + 1
       IN (n >= 2 /\ \E k \in 1..n : ~KeyCooling(id, keys[k])) =>
            \E i \in 0..(n - 1) :
              /\ ~KeyCooling(id, keys[at(i)])
              /\ \A j \in 0..(i - 1) : KeyCooling(id, keys[at(j)])
              /\ ret'.result = <<keys[at(i)]>>
              /\ Has(runtimeStatusCache', id)
              /\ runtimeStatusCache'[id].keyRotationIndex = <<at(i) % n>>]_vars

\* keys a, b, c with a and b cooling: the call skipped them and returned c
C11_Witness ==
  /\ LastWasNextKey
  /\ ret.apiKeyRaw = RawABC
  /\ ret.configId = "e1"
  /\ KeyCooling("e1", <<"a">>)
  /\ KeyCooling("e1", <<"b">>)
  /\ ret.result = << <<"c">> >>
  /\ StoredKeyIndex("e1") = 0

\* C12: a getNextAvailableApiKey call for two or more parsed keys that are all
\* cooling returns no key and leaves the endpoint's stored index and every key
\* health entry as they were.
C12_AllCoolingReturnsNoneAndKeepsIndex ==
  [][ret'.op = "nextKey" =>
       LET keys == ParseApiKeys(ret'.apiKeyRaw)
           id == ret'.configId
       IN (Len(keys) >= 2 /\ \A k \in 1..Len(keys) : KeyCooling(id, keys[k])) =>
            /\ ret'.result = <<>>
            /\ runtimeStatusCache' = runtimeStatusCache]_vars

\* both keys of e1 cool, the call returned nothing and the index is still 1
C12_Witness ==
  /\ LastWasNextKey
  /\ ret.configId = "e1"
  /\ ret.apiKeyRaw = RawAB
  /\ KeyCooling("e1", <<"a">>)
  /\ KeyCooling("e1", <<"b">>)
  /\ ret.result = <<>>
  /\ StoredKeyIndex("e1") = 1

DiagIds == {"e1", "e2"}

NextDiag ==
  \/ ClockBelow(DiagTicks) /\ Tick(TickMs)
  \/ \E configId \in DiagIds, error \in Errors :
       /\ FailuresBelow(configId, DiagCount)
       /\ markConfigError(configId, error, DEFAULT_COOLDOWN_MS)
  \/ \E error \in Errors :
       /\ KeyFailuresBelow("e1", <<"a">>, DiagCount)
       /\ markApiKeyError("e1", <<"a">>, error, TickMs)
  \/ getNextAvailableApiKey("e1", RawAB)
  \/ currentIndex < DiagCount /\ buildFailoverQueue(<<E1, E2>>)
  \/ pending = <<>> /\ getEnabledConfigsAwait(<<>>)
  \/ getUserSettings(1)
  \/ getEnabledConfigsResume(1)
  \/ \E configId \in DiagIds : getConfigStats(configId)
  \/ getAllConfigsStatus(store)
  \/ getCurrentIndex
  \/ showConfigStatus(store)

SpecDiag == Init /\ [][NextDiag]_vars

(***************************************************************************)
(* SpecWipe: removal notifications, clearAll and reset over a registry     *)
(* with two endpoints, a moving cursor and filled caches                   *)
(***************************************************************************)
NextWipe ==
  \/ \E configId \in DiagIds, error \in Errors :
       /\ FailuresBelow(configId, WipeCount)
       /\ markConfigError(configId, error, DEFAULT_COOLDOWN_MS)
  \/ \E error \in Errors :
       /\ KeyFailuresBelow("e1", <<"a">>, WipeCount)
       /\ markApiKeyError("e1", <<"a">>, error, TickMs)
  \/ getNextAvailableApiKey("e1", RawAB)
  \/ \E configId \in DiagIds : storeEpoch < WipeNotifs /\ ConfigRemoved(configId)
  \/ clearRuntimeStatusCache
  \/ resetIndex
  \/ currentIndex < WipeCount /\ buildFailoverQueue(<<E1, E2>>)
  \/ pending = <<>> /\ getEnabledConfigsAwait(<<>>)
  \/ getUserSettings(1)
  \/ getEnabledConfigsResume(1)

SpecWipe == Init /\ [][NextWipe]_vars

(***************************************************************************)
(* Claims about removal, the diagnostic reads, reset and clearAll          *)
(***************************************************************************)
\* the records of a summary that are about this endpoint
RecordsOf(statusList, configId) ==
  {i \in 1..Len(statusList) : statusList[i].configId = configId}

\* C14: processing a removal notification for an endpoint id deletes that id's
\* health entry (its key entries and key rotation index are inside it) and
\* empties the raw and derived caches: right after it getConfigStats(id) is
\* absent, a summary over the current configuration has no record of the id, a
\* summary over the configuration from before shows no counter or error of it,
\* and the entries of the other ids and the cursor are as they were.
C14_RemovalDeletesEntryAndInvalidates ==
  [][(ret'.op = "notify" /\ ret'.removed # <<>>) =>
       LET id == ret'.removed[1]
           after == GetAllConfigsStatus(runtimeStatusCache', store', now')
           stale == GetAllConfigsStatus(runtimeStatusCache', store, now')
       IN /\ ~Has(runtimeStatusCache', id)
          /\ configCache' = <<>>
          /\ DOMAIN enabledConfigsCache' = {}
          /\ GetConfigStats(runtimeStatusCache', id, now') = <<>>
          /\ RecordsOf(after, id) = {}
          /\ \A i \in RecordsOf(stale, id) :
               /\ stale[i].successCount = 0
               /\ stale[i].failureCount = 0
               /\ stale[i].lastError = <<>>
               /\ ~stale[i].isInCooldown
          /\ \A other \in AllConfigIds \ {id} :
               /\ Has(runtimeStatusCache', other) <=> Has(runtimeStatusCache, other)
               /\ Has(runtimeStatusCache, other) =>
                    runtimeStatusCache'[other] = runtimeStatusCache[other]
          /\ currentIndex' = currentIndex]_vars

\* e1 was removed after it and one of its keys had failed and a key had been
\* handed out; e2 keeps its entry and the cursor has moved
C14_Witness ==
  /\ ret.op = "notify"
  /\ ret.removed = <<"e1">>
  /\ lastReport.config["e1"].kind = "failure"
  /\ lastReport.config["e1"].wiped
  /\ lastReport.key[<<"e1", <<"a">>>>].kind = "failure"
  /\ ~Has(runtimeStatusCache, "e1")
  /\ Has(runtimeStatusCache, "e2")
  /\ currentIndex > 0

RegistryAndView ==
  <<runtimeStatusCache, configCache, enabledConfigsCache, cacheTimestamp, currentIndex>>

\* C15: getAllConfigsStatus, getConfigStats, getCurrentIndex and the
\* showConfigStatus view that calls them leave the health registry, the raw and
\* derived caches with their timestamp and the cursor unchanged.
C15_ReadsChangeNothing ==
  [][ret'.op \in {"summarize", "stats", "peek", "showConfigStatus"} =>
       UNCHANGED RegistryAndView]_vars

\* a summary taken while e1 is cooling with a key entry and a stored key index,
\* the caches are filled and the cursor has moved
C15_Witness ==
  /\ ret.op = "summarize"
  /\ \E i \in RecordsOf(ret.result, "e1") :
       /\ ret.result[i].isInCooldown
       /\ ret.result[i].failureCount = 1
       /\ ret.result[i].keyCount = 2
  /\ Has(runtimeStatusCache, "e1")
  /\ runtimeStatusCache["e1"].keyStatuses # <<>>
  /\ runtimeStatusCache["e1"].keyRotationIndex # <<>>
  /\ configCache # <<>>
  /\ DOMAIN enabledConfigsCache # {}
  /\ cacheTimestamp > 0
  /\ currentIndex > 0

\* C16: resetIndex sets the cursor to 0 and changes nothing else;
\* clearRuntimeStatusCache leaves no health entry (so no key entry and no key
\* rotation index either) and changes neither the cursor nor the caches.
C16_ResetAndClearAllTouchOnlyTheirOwn ==
  [][/\ ret'.op = "reset" =>
          /\ currentIndex' = 0
          /\ UNCHANGED <<runtimeStatusCache, configCache, enabledConfigsCache,
                         cacheTimestamp, store, pending, now>>
     /\ ret'.op = "clearAll" =>
          /\ DOMAIN runtimeStatusCache' = {}
          /\ UNCHANGED <<currentIndex, configCache, enabledConfigsCache,
                         cacheTimestamp, store, pending, now>>]_vars

\* clearAll wiped the entries of two endpoints, one with a key entry, while the
\* cursor had moved and the caches were filled
C16_Witness ==
  /\ ret.op = "clearAll"
  /\ lastReport.config["e1"].kind = "failure"
  /\ lastReport.config["e1"].wiped
  /\ lastReport.config["e2"].kind = "failure"
  /\ lastReport.config["e2"].wiped
  /\ lastReport.key[<<"e1", <<"a">>>>].kind = "failure"
  /\ lastReport.key[<<"e1", <<"a">>>>].wiped
  /\ DOMAIN runtimeStatusCache = {}
  /\ currentIndex > 0
  /\ configCache # <<>>
  /\ DOMAIN enabledConfigsCache # {}

(***************************************************************************)
(* SpecParse: parseApiKeys on every raw string up to a length              *)
(***************************************************************************)
RawAlphabet == {",", "\n", "\r", " ", "a", "b"}
\* "a, b\nc,, d"
RawExample == <<"a", ",", " ", "b", "\n", "c", ",", ",", " ", "d">>
RawStrings == SeqsUpTo(RawAlphabet, MaxRaw) \cup {RawExample}

\* a freshly constructed dispatcher and a caller about to parse a raw string
InitParse ==
  /\ now = StartTime
  /\ store = <<E1, E2, E3>>
  /\ storeEpoch = 0
  /\ currentIndex = 0
  /\ runtimeStatusCache = EmptyMap
  /\ configCache = <<>>
  /\ enabledConfigsCache = EmptyMap
  /\ cacheTimestamp = 0
  /\ cacheMeta = NoMeta
  /\ pending = <<>>
  /\ lastReport = NoReports
  /\ \E apiKeyRaw \in RawStrings : ret = [op |-> "input", apiKeyRaw |-> apiKeyRaw]

NextParse == ret.op = "input" /\ parseApiKeys(ret.apiKeyRaw)

SpecParse == InitParse /\ [][NextParse]_vars

(***************************************************************************)
(* Claims about parseApiKeys                                               *)
(***************************************************************************)
Separators == {",", "\n", "\r"}

\* raw[i..j] is a maximal run without a separator
MaximalRun(raw, i, j) ==
  /\ 1 <= i /\ i <= j /\ j <= Len(raw)
  /\ \A k \in i..j : raw[k] \notin Separators
  /\ i = 1 \/ raw[i - 1] \in Separators
  /\ j = Len(raw) \/ raw[j + 1] \in Separators

\* raw[i..j] is what is left of a maximal run once the blanks around it are cut
TrimmedRun(raw, i, j) ==
  /\ 1 <= i /\ i <= j /\ j <= Len(raw)
  /\ raw[i] # " " /\ raw[j] # " "
  /\ \E a \in 1..i, b \in j..Len(raw) :
       /\ MaximalRun(raw, a, b)
       /\ \A k \in (a..(i - 1)) \cup ((j + 1)..b) : raw[k] = " "

TrimmedRuns(raw) ==
  {ij \in (1..Len(raw)) \X (1..Len(raw)) : TrimmedRun(raw, ij[1], ij[2])}

\* C17: parseApiKeys returns the maximal separator-free tokens of the raw
\* string, trimmed, without the empty ones, in source order; every returned key
\* is non-empty and holds no separator, and the empty string yields no key.
C17_ParseGivesTrimmedTokensInOrder ==
  ret.op = "parse" =>
    LET raw == ret.apiKeyRaw
        keys == ret.result
        runs == TrimmedRuns(raw)
    IN /\ Len(keys) = Cardinality(runs)
       /\ \A ij \in runs :
            keys[Cardinality({q \in runs : q[1] < ij[1]}) + 1]
              = SubSeq(raw, ij[1], ij[2])
       /\ \A k \in 1..Len(keys) :
            /\ Len(keys[k]) > 0
            /\ \A c \in 1..Len(keys[k]) : keys[k][c] \notin Separators
       /\ raw = <<>> => keys = <<>>

\* the example of the specification: "a, b\nc,, d" gave a, b, c, d
C17_Witness ==
  /\ ret.op = "parse"
  /\ ret.apiKeyRaw = RawExample
  /\ ret.result = << <<"a">>, <<"b">>, <<"c">>, <<"d">> >>

(***************************************************************************)
(* SpecPair: two endpoints that list the same keys, and a moving cursor    *)
(***************************************************************************)
KeyIds == {"e1", "e2"}

NextPair ==
  \/ ClockBelow(KeysTicks) /\ Tick(TickMs)
  \/ \E configId \in KeyIds : getNextAvailableApiKey(configId, RawAB)
  \/ \E configId \in KeyIds, error \in Errors :
       /\ KeyFailuresBelow(configId, <<"a">>, KeysCount)
       /\ markApiKeyError(configId, <<"a">>, error, TickMs)
  \/ \E configId \in KeyIds :
       /\ KeySuccessesBelow(configId, <<"a">>, KeysCount)
       /\ markApiKeySuccess(configId, <<"a">>)
  \/ currentIndex < KeysCount /\ buildFailoverQueue(<<E1, E2>>)

SpecPair == Init /\ [][NextPair]_vars

\* C18: getNextAvailableApiKey, markApiKeyError and markApiKeySuccess for an
\* endpoint leave the entry of every other endpoint (its key rotation index and
\* its key health entries) and the cursor as they were.
C18_KeyOpsStayWithinTheirEndpoint ==
  [][ret'.op \in {"nextKey", "markApiKeyError", "markApiKeySuccess"} =>
       /\ \A other \in AllConfigIds \ {ret'.configId} :
            /\ Has(runtimeStatusCache', other) <=> Has(runtimeStatusCache, other)
            /\ Has(runtimeStatusCache, other) =>
                 runtimeStatusCache'[other] = runtimeStatusCache[other]
       /\ currentIndex' = currentIndex]_vars

\* key a failed for e1 while e2 holds an entry for the same key string that is
\* not cooling, has handed out a key, and the cursor has moved
C18_Witness ==
  /\ ret.op = "markApiKeyError"
  /\ ret.configId = "e1"
  /\ ret.apiKey = <<"a">>
  /\ KeyCooling("e1", <<"a">>)
  /\ Has(KeyEntries("e2"), <<"a">>)
  /\ ~KeyCooling("e2", <<"a">>)
  /\ StoredKeyIndex("e2") = 1
  /\ currentIndex > 0

(***************************************************************************)
(* Claims about the life of a health entry                                 *)
(***************************************************************************)
\* a report for the endpoint or one of its keys was made and not wiped since
ReportedSinceWipe(configId) ==
  \/ /\ lastReport.config[configId].kind # "none"
     /\ ~lastReport.config[configId].wiped
  \/ \E apiKey \in AllKeys :
       /\ lastReport.key[<<configId, apiKey>>].kind # "none"
       /\ ~lastReport.key[<<configId, apiKey>>].wiped

\* C19: getConfigStats(id) is absent unless a success or failure report for the
\* endpoint or one of its keys was made since the id's last removal or clearAll.
C19_EntryOnlyAfterReport ==
  \A configId \in AllConfigIds :
    GetConfigStats(runtimeStatusCache, configId, now) # <<>> =>
      ReportedSinceWipe(configId)

(***************************************************************************)
(* SpecCount: repeated reports of every kind for one endpoint and one key  *)
(***************************************************************************)
NextCount ==
  \/ ClockBelow(CountTicks) /\ Tick(TickMs)
  \/ \E error \in Errors :
       FailuresBelow("e1", CountReports) /\ markConfigError("e1", error, TickMs)
  \/ SuccessesBelow("e1", CountReports) /\ markConfigSuccess("e1")
  \/ \E error \in Errors :
       /\ KeyFailuresBelow("e1", <<"a">>, CountReports)
       /\ markApiKeyError("e1", <<"a">>, error, TickMs)
  \/ KeySuccessesBelow("e1", <<"a">>, CountReports) /\ markApiKeySuccess("e1", <<"a">>)
  \/ getNextAvailableApiKey("e1", RawAB)
  \/ clearRuntimeStatusCache
  \/ storeEpoch < CountNotifs /\ ConfigRemoved("e1")

SpecCount == Init /\ [][NextCount]_vars

\* the key's entry in a registry, the default one when the endpoint or the key
\* has none
KeyEntryIn(cache, configId, apiKey) ==
  IF Has(cache, configId) /\ cache[configId].keyStatuses # <<>>
       /\ Has(cache[configId].keyStatuses[1], apiKey)
  THEN cache[configId].keyStatuses[1][apiKey]
  ELSE NewKeyStatus

KeyEntryOrNew(configId, apiKey) == KeyEntryIn(runtimeStatusCache, configId, apiKey)

\* C20: apart from removal and clearAll steps no step lowers a success or
\* failure counter of an endpoint or of a key; markConfigError adds exactly 1 to
\* failureCount, overwrites lastError and keeps successCount and lastUsed;
\* markConfigSuccess adds exactly 1 to successCount, sets lastUsed and keeps
\* failureCount and lastError; markApiKeyError and markApiKeySuccess do the
\* same to the counters and lastError of the key.
C20_CountersOnlyGrowByOnePerReport ==
  [][/\ ret'.op \notin {"clearAll", "notify"} =>
          \A id \in AllConfigIds :
            /\ CountOrZero(runtimeStatusCache', id, "successCount")
                 >= CountOrZero(runtimeStatusCache, id, "successCount")
            /\ CountOrZero(runtimeStatusCache', id, "failureCount")
                 >= CountOrZero(runtimeStatusCache, id, "failureCount")
            /\ \A apiKey \in AllKeys :
                 /\ KeyEntryIn(runtimeStatusCache', id, apiKey).successCount
                      >= KeyEntryOrNew(id, apiKey).successCount
                 /\ KeyEntryIn(runtimeStatusCache', id, apiKey).failureCount
                      >= KeyEntryOrNew(id, apiKey).failureCount
     /\ ret'.op = "markConfigError" =>
          LET old == StatusOrNew(runtimeStatusCache, ret'.configId)
              new == runtimeStatusCache'[ret'.configId]
          IN /\ new.failureCount = old.failureCount + 1
             /\ new.lastError # <<>>
             /\ new.lastError[1].timestamp = now
             /\ new.successCount = old.successCount
             /\ new.lastUsed = old.lastUsed
     /\ ret'.op = "markConfigSuccess" =>
          LET old == StatusOrNew(runtimeStatusCache, ret'.configId)
              new == runtimeStatusCache'[ret'.configId]
          IN /\ new.successCount = old.successCount + 1
             /\ new.lastUsed = <<now>>
             /\ new.failureCount = old.failureCount
             /\ new.lastError = old.lastError
     /\ ret'.op = "markApiKeyError" =>
          LET old == KeyEntryOrNew(ret'.configId, ret'.apiKey)
              new == KeyEntryIn(runtimeStatusCache', ret'.configId, ret'.apiKey)
          IN /\ new.failureCount = old.failureCount + 1
             /\ new.lastError # <<>>
             /\ new.lastError[1].timestamp = now
             /\ new.successCount = old.successCount
     /\ ret'.op = "markApiKeySuccess" =>
          LET old == KeyEntryOrNew(ret'.configId, ret'.apiKey)
              new == KeyEntryIn(runtimeStatusCache', ret'.configId, ret'.apiKey)
          IN /\ new.successCount = old.successCount + 1
             /\ new.failureCount = old.failureCount
             /\ new.lastError = old.lastError]_vars

\* a second failure of e1 at a later time replaced the error of the first one,
\* after a success in between; key a has failed twice and succeeded as well
C20_Witness ==
  /\ ret.op = "markConfigError"
  /\ ret.configId = "e1"
  /\ Has(runtimeStatusCache, "e1")
  /\ runtimeStatusCache["e1"].failureCount = 2
  /\ runtimeStatusCache["e1"].successCount = 1
  /\ runtimeStatusCache["e1"].lastUsed = <<StartTime>>
  /\ runtimeStatusCache["e1"].lastError[1].timestamp > StartTime
  /\ KeyEntryOrNew("e1", <<"a">>).failureCount = 2
  /\ KeyEntryOrNew("e1", <<"a">>).successCount = 1

(***************************************************************************)
(* SpecFilter: the cooldown filter over every registry, list and time      *)
(***************************************************************************)
FilterIds == {"e1", "e2"}
\* e3 never gets an entry; E1dup repeats the id of E1
FilterLists == SeqsUpTo({E1, E2, E3}, FilterLen) \cup {<<E1dup>>, <<E1, E1dup>>}
\* a cooldown that is over at once, and one that ends at the next clock step
FilterCooldowns == {0, TickMs}

NextFilter ==
  \/ ClockBelow(FilterTicks) /\ Tick(TickMs)
  \/ \E configId \in FilterIds, error \in Errors, cooldownDuration \in FilterCooldowns :
       /\ FailuresBelow(configId, FilterCount)
       /\ markConfigError(configId, error, cooldownDuration)
  \/ SuccessesBelow("e1", FilterCount) /\ markConfigSuccess("e1")
  \/ \E configs \in FilterLists : filterCooldownConfigs(configs)

SpecFilter == Init /\ [][NextFilter]_vars

LastWasFilter == ret.op = "filter"

\* the uniform rule: no cooldownUntil is recorded, or t >= cooldownUntil
UniformlyKept(cache, configId, t) ==
  \/ ~Has(cache, configId)
  \/ cache[configId].cooldownUntil = <<>>
  \/ t >= cache[configId].cooldownUntil[1]

\* C21: for every registry, candidate list and time, filterCooldownConfigs
\* returns exactly the candidates, in order, that have no cooldownUntil recorded
\* or whose cooldownUntil is not after now, whichever fast path was taken.
C21_FilterEqualsUniformFilter ==
  LastWasFilter =>
    ret.result = SelectSeq(ret.configs,
                           LAMBDA c : UniformlyKept(runtimeStatusCache, c.id, ret.at))

\* a single candidate without an entry passes while another endpoint is cooling
C21_Witness ==
  /\ LastWasFilter
  /\ Len(ret.configs) = 1
  /\ ~Has(runtimeStatusCache, ret.configs[1].id)
  /\ \E id \in DOMAIN runtimeStatusCache :
       CoolingAt(runtimeStatusCache[id].cooldownUntil, ret.at)
  /\ ret.result = ret.configs

(***************************************************************************)
(* SpecAgree: the three cooldown views over the same registry              *)
(***************************************************************************)
AgreeIds == {"e1", "e2"}

NextAgree ==
  \/ ClockBelow(AgreeTicks) /\ Tick(TickMs)
  \/ \E configId \in AgreeIds, error \in Errors :
       /\ FailuresBelow(configId, AgreeCount)
       /\ markConfigError(configId, error, TickMs)
  \/ SuccessesBelow("e1", AgreeCount) /\ markConfigSuccess("e1")
  \/ \E configId \in AllConfigIds : getConfigStats(configId)
  \/ getAllConfigsStatus(store)
  \/ getEnabledConfigsHit(<<>>)
  \/ getEnabledConfigsHeld(<<>>)
  \/ pending = <<>> /\ getEnabledConfigsAwait(<<>>)
  \/ getUserSettings(1)
  \/ getEnabledConfigsResume(1)

SpecAgree == Init /\ [][NextAgree]_vars

\* a cooldownUntil exists for the endpoint and t is before it
OnCooldownAt(configId, t) ==
  /\ Has(runtimeStatusCache, configId)
  /\ runtimeStatusCache[configId].cooldownUntil # <<>>
  /\ t < runtimeStatusCache[configId].cooldownUntil[1]

InSeq(s, x) == \E i \in 1..Len(s) : s[i] = x

\* C22: over one registry and one time, the diagnostics record's flag, the
\* isInCooldown of getConfigStats and the exclusion by the cooldown filter of
\* getEnabledConfigs all say "cooldownUntil exists and now < cooldownUntil";
\* the remaining milliseconds are cooldownUntil - now (> 0) when the flag is
\* set and absent otherwise; an endpoint without an entry is reported with
\* zero counts and not on cooldown.
C22_CooldownViewsAgree ==
  /\ ret.op = "summarize" =>
       \A i \in 1..Len(ret.result) :
         LET record == ret.result[i]
             id == record.configId
             stats == GetConfigStats(runtimeStatusCache, id, ret.at)
             kept == FilterCooldownConfigs(runtimeStatusCache, ret.configs, ret.at)
         IN /\ record.isInCooldown = OnCooldownAt(id, ret.at)
            /\ stats # <<>> => stats[1].isInCooldown = record.isInCooldown
            /\ stats = <<>> => ~record.isInCooldown
            /\ InSeq(kept, ret.configs[i]) = ~record.isInCooldown
            /\ record.isInCooldown =>
                 /\ record.cooldownRemainingMs =
                      <<runtimeStatusCache[id].cooldownUntil[1] - ret.at>>
                 /\ record.cooldownRemainingMs[1] > 0
            /\ ~record.isInCooldown => record.cooldownRemainingMs = <<>>
            /\ ~Has(runtimeStatusCache, id) =>
                 /\ record.successCount = 0
                 /\ record.failureCount = 0
                 /\ ~record.isInCooldown
  /\ ret.op = "stats" =>
       /\ ret.result = <<>> <=> ~Has(runtimeStatusCache, ret.configId)
       /\ ret.result # <<>> =>
            ret.result[1].isInCooldown = OnCooldownAt(ret.configId, ret.at)
  /\ LastWasCall =>
       LET cached == enabledConfigsCache[CacheKey(ret.providerId)]
       IN \A i \in 1..Len(cached) :
            InSeq(ret.result, cached[i]) = ~OnCooldownAt(cached[i].id, ret.now)

\* one diagnostics summary with an endpoint on cooldown, one whose deadline is
\* reached at this very time, and one without an entry
C22_Witness ==
  /\ ret.op = "summarize"
  /\ \E i \in RecordsOf(ret.result, "e1") :
       /\ ret.result[i].isInCooldown
       /\ ret.result[i].cooldownRemainingMs = <<TickMs>>
  /\ \E i \in RecordsOf(ret.result, "e2") :
       /\ ~ret.result[i].isInCooldown
       /\ ret.result[i].failureCount = 1
       /\ runtimeStatusCache["e2"].cooldownUntil = <<ret.at>>
  /\ \E i \in RecordsOf(ret.result, "e3") :
       /\ ~Has(runtimeStatusCache, "e3")
       /\ ~ret.result[i].isInCooldown

(***************************************************************************)
(* SpecLayers: endpoint reports and key reports on the same entry          *)
(***************************************************************************)
NextLayers ==
  \/ now = StartTime /\ Tick(TickMs)
  \/ \E error \in Errors :
       FailuresBelow("e1", LayerCount) /\ markConfigError("e1", error, TickMs)
  \/ SuccessesBelow("e1", LayerCount) /\ markConfigSuccess("e1")
  \/ \E apiKey \in Keys, error \in Errors :
       /\ KeyFailuresBelow("e1", apiKey, LayerCount)
       /\ markApiKeyError("e1", apiKey, error, TickMs)
  \/ KeySuccessesBelow("e1", <<"a">>, LayerCount) /\ markApiKeySuccess("e1", <<"a">>)
  \/ getNextAvailableApiKey("e1", RawAB)
  \/ pending = <<>> /\ getEnabledConfigsAwait(<<>>)
  \/ getUserSettings(1)
  \/ getEnabledConfigsResume(1)

SpecLayers == Init /\ [][NextLayers]_vars

\* the endpoint's own part of an entry, and its key part
OwnFields == {"successCount", "failureCount", "lastError", "lastUsed", "cooldownUntil"}
KeyFields == {"keyStatuses", "keyRotationIndex"}
SameFields(cache1, cache2, configId, fields) ==
  \A f \in fields : StatusOrNew(cache1, configId)[f] = StatusOrNew(cache2, configId)[f]

\* C23: markConfigError and markConfigSuccess leave the endpoint's key health
\* entries and key rotation index as they were; markApiKeyError and
\* markApiKeySuccess leave the endpoint's successCount, failureCount, lastError,
\* lastUsed and cooldownUntil as they were; getEnabledConfigs returns every
\* cached endpoint that is not itself on cooldown, whatever its keys' health.
C23_EndpointAndKeyLayersAreSeparate ==
  [][/\ ret'.op \in {"markConfigError", "markConfigSuccess"} =>
          SameFields(runtimeStatusCache', runtimeStatusCache, ret'.configId, KeyFields)
     /\ ret'.op \in {"markApiKeyError", "markApiKeySuccess"} =>
          SameFields(runtimeStatusCache', runtimeStatusCache, ret'.configId, OwnFields)
     /\ ret'.op = "enabledEndpoints" =>
          LET cached == enabledConfigsCache'[CacheKey(ret'.providerId)]
          IN \A i \in 1..Len(cached) :
               (\/ ~Has(runtimeStatusCache, cached[i].id)
                \/ ~CoolingAt(runtimeStatusCache[cached[i].id].cooldownUntil, ret'.now))
               => InSeq(ret'.result, cached[i])]_vars

\* e1 is returned while both of its keys are on cooldown, after an endpoint
\* success that followed the key failures
C23_Witness ==
  /\ LastWasCall
  /\ InSeq(ret.result, E1)
  /\ \A apiKey \in Keys : KeyCooling("e1", apiKey)
  /\ lastReport.config["e1"].kind = "success"
  /\ \A apiKey \in Keys :
       /\ lastReport.key[<<"e1", apiKey>>].kind = "failure"
       /\ lastReport.key[<<"e1", apiKey>>].at <= lastReport.config["e1"].at
  /\ runtimeStatusCache["e1"].successCount = 1
  /\ StoredKeyIndex("e1") = 1

(***************************************************************************)
(* Claims about reports that arrive after a removal                        *)
(***************************************************************************)
ConfiguredIds == {store[i].id : i \in 1..Len(store)}

\* C24: in every reachable state every endpoint id that has a health entry is
\* the id of an item of the current configuration, also when a report or a key
\* request for the id arrives after the id's removal notification.
C24_EntriesOnlyForConfiguredIds ==
  DOMAIN runtimeStatusCache \subseteq ConfiguredIds

(***************************************************************************)
(* SpecHold: calls that do not overlap, between change notifications       *)
(***************************************************************************)
HoldProviders == {<<>>, <<"p1">>}

NextHold ==
  \/ ClockBelow(HoldTicks) /\ Tick(TickMs)
  \/ \E apiConfigs \in StoreVersions :
       storeEpoch < HoldNotifs /\ ConfigChanged(apiConfigs)
  \/ storeEpoch < HoldNotifs /\ ConfigRemoved("e1")
  \/ \E providerId \in HoldProviders : getEnabledConfigsHit(providerId)
  \/ \E providerId \in HoldProviders : getEnabledConfigsHeld(providerId)
  \/ \E providerId \in HoldProviders :
       pending = <<>> /\ getEnabledConfigsAwait(providerId)
  \/ getUserSettings(1)
  \/ getEnabledConfigsResume(1)

SpecHold == Init /\ [][NextHold]_vars

\* the store was read since the last change notification: by a call that is
\* still suspended, or for the snapshot that is held
FetchedSinceNotification ==
  \/ \E i \in 1..Len(pending) :
       /\ pending[i].settings # <<>>
       /\ pending[i].settings[1].epoch = storeEpoch
  \/ cacheMeta.config = <<storeEpoch>>

\* C25: with calls that do not overlap, the store is read at most once between
\* two consecutive change notifications; a held snapshot is replaced only by a
\* notification; a call that misses the cache while a snapshot is held (TTL
\* expiry or a new provider key) reads nothing from the store and derives its
\* list from the held snapshot.
C25_MissRederivesFromHeldSnapshot ==
  [][/\ ret'.op = "getUserSettings" => ~FetchedSinceNotification
     /\ (configCache # <<>> /\ configCache' # configCache) => ret'.op = "notify"
     /\ (configCache # <<>> /\ ret'.op = "enabledEndpoints" /\ ~ret'.hit) =>
          LET configs == EnabledConfigs(configCache[1], ret'.providerId)
          IN /\ pending' = pending
             /\ configCache' = configCache
             /\ enabledConfigsCache'[CacheKey(ret'.providerId)] = configs
             /\ ret'.result = FilterCooldownConfigs(runtimeStatusCache, configs, ret'.now)
             /\ ret'.dataEpoch = cacheMeta.config[1]]_vars

\* after a notification the store was read once; a full TTL after the list for
\* provider p1 was derived, a call for all providers misses the cache and is
\* answered from the snapshot read in this epoch
C25_Witness ==
  /\ LastWasCall
  /\ ~ret.hit
  /\ ret.providerId = <<>>
  /\ pending = <<>>
  /\ storeEpoch > 0
  /\ cacheMeta.config = <<storeEpoch>>
  /\ Has(enabledConfigsCache, "p1")
  /\ ret.now - cacheMeta.lists["p1"].at >= CACHE_TTL_MS
  /\ ret.result = EnabledConfigs(configCache[1], <<>>)
  /\ configCache[1] = store

====
